---- MODULE Spec2Model ----
(***************************************************************************)
(* manim/_config/__init__.py: the process-wide `config` singleton and the  *)
(* scoped override `tempconfig`.                                           *)
(*                                                                         *)
(* Objects live in a heap (reference -> contents) so that identity,        *)
(* aliasing and rebinding of the global name are visible.  A configuration *)
(* object's contents are a function from its keys to values.               *)
(***************************************************************************)
EXTENDS Naturals, Sequences, FiniteSets, TLC

\* nesting depth of tempconfig scopes explored in one execution context
MaxDepth == 2

\* ------------------------------------------------------------------ data

\* keys the digested configuration holds, and a key it does not hold
KnownKeys == {"frame_height", "pixel_width"}
UnknownKeys == {"bogus_key"}
AllKeys == KnownKeys \cup UnknownKeys

\* values that pass a key's validation, and one that does not
Values == {"8.0", "100.0"}
Invalid == "invalid"

\* errors a body can raise, and the one a failing update raises
UpdateError == "UpdateError"
Errors == {"BodyError", UpdateError}
NoError == "none"

\* the object built at import time and captured by every collaborator
ConfigObj == 0
Digested == [k \in KnownKeys |-> "8.0"]

EmptyDict == [k \in {} |-> Invalid]

\* mappings a caller can pass to tempconfig or to update: any value, valid or
\* not, for a key of the configuration; the value of a key it does not hold
\* is never read by tempconfig
Mappings ==
  {m \in UNION {[S -> Values \cup {Invalid}] : S \in SUBSET AllKeys} :
     \A k \in DOMAIN m \cap UnknownKeys : m[k] = "8.0"}

\* mappings a body passes to update: a value for every key of the
\* configuration (config[k] = v sets one), with or without a key it lacks
BodyMappings ==
  {m \in Mappings : KnownKeys \subseteq DOMAIN m
                    /\ \A k \in DOMAIN m : m[k] # Invalid}

VARIABLES
  config,    \* the object the global name `config` is bound to
  heap,      \* reference -> contents of the object
  strict,    \* whether update fails on a key the object does not hold
  threads,   \* the execution contexts of this run
  stack,     \* per context: its active tempconfig generators, innermost last
  exc,       \* per context: the error propagating in it
  conc,      \* history, kept where contexts run concurrently: their scopes
  ev         \* history: the step just taken

vars == <<config, heap, strict, threads, stack, exc, conc, ev>>

\* --------------------------------------------------- ManimConfig contract

Restrict(d, S) == [k \in S |-> d[k]]

NewRef(h) ==
  CHOOSE r \in 0..Cardinality(DOMAIN h) :
    /\ r \notin DOMAIN h
    /\ \A q \in 0..Cardinality(DOMAIN h) : q \notin DOMAIN h => r <= q

Alloc(h, r, d) == [q \in DOMAIN h \cup {r} |-> IF q = r THEN d ELSE h[q]]

Free(h, r) == Restrict(h, DOMAIN h \ {r})

\* copy(): a new object with the same contents
Copy(h, ref) == [ref |-> NewRef(h), heap |-> Alloc(h, NewRef(h), h[ref])]

\* `k in c`
Contains(c, k) == k \in DOMAIN c

\* update(m) stops at the first item it rejects
Bad(c, k, v) == v = Invalid \/ (strict /\ ~Contains(c, k))

GoodKeys(c, m) == {k \in DOMAIN m : ~Bad(c, k, m[k])}

Assign(c, m, S) ==
  [k \in DOMAIN c |-> IF k \in S /\ k \in DOMAIN m THEN m[k] ELSE c[k]]

\* update(m): in place, existing keys only.  The items assigned before a
\* rejected one depend on m's iteration order: any subset of the good ones.
UpdateOutcomes(c, m) ==
  IF GoodKeys(c, m) = DOMAIN m
  THEN {[d |-> Assign(c, m, DOMAIN m), raised |-> FALSE]}
  ELSE {[d |-> Assign(c, m, S), raised |-> TRUE] : S \in SUBSET GoodKeys(c, m)}

\* ------------------------------------------------------------ tempconfig

Contexts == {"main", "worker"}

Top(t) == stack[t][Len(stack[t])]

Pop(s) == SubSeq(s, 1, Len(s) - 1)

\* the caller's code has control: top level, or the body of a scope
InCaller(t) == IF stack[t] = <<>> THEN TRUE ELSE Top(t).pc = "body"

\* the context is running caller code with no error pending
Idle(t) == exc[t] = NoError /\ InCaller(t)

\* history, kept where one context runs alone: the values the body of the
\* innermost active scope last left in the live object
LiveOf(c) == IF Cardinality(threads) = 1 THEN c ELSE EmptyDict

SetLive(s, c) == IF s = <<>> THEN s ELSE [s EXCEPT ![Len(s)].live = LiveOf(c)]

\* an object no generator refers to any more is collected
Discard(h, r, cfg) == IF r = cfg THEN h ELSE Free(h, r)

\* fault variant: original = config (no copy)
TakeOriginalAlias(h, cfg) == [ref |-> cfg, heap |-> h]

\* original = config.copy()
TakeOriginal(h, cfg) == Copy(h, cfg)

\* fault variant: temp passed to update unfiltered
FilterTempNone(temp, original) == temp

\* temp = {k: v for k, v in temp.items() if k in original}
FilterTemp(temp, original) ==
  Restrict(temp, {k \in DOMAIN temp : Contains(original, k)})

\* fault variant: config = temp (the assignment the source warns against)
ApplyTempByAssignment(h, cfg, temp) ==
  {[heap |-> Alloc(h, NewRef(h), temp), config |-> NewRef(h), raised |-> FALSE]}

\* config.update(temp): in place on the object the global names
ApplyTemp(h, cfg, temp) ==
  {[heap |-> [h EXCEPT ![cfg] = o.d], config |-> cfg, raised |-> o.raised] :
     o \in UpdateOutcomes(h[cfg], temp)}

\* config.update(m) in the finally clause, which ends the generator
Restored(h, cfg, f, e, m) ==
  {[heap |-> Discard([h EXCEPT ![cfg] = o.d], f.original, cfg),
    config |-> cfg,
    exc |-> IF o.raised THEN UpdateError ELSE e] :
     o \in UpdateOutcomes(h[cfg], m)}

\* the generator ends without touching the configuration
NotRestored(h, cfg, f, e) ==
  {[heap |-> Discard(h, f.original, cfg), config |-> cfg, exc |-> e]}

\* fault variant: restore in an except clause, then re-raise
ExitScopeExceptOnly(h, cfg, f, e) ==
  IF e = NoError
  THEN NotRestored(h, cfg, f, e)
  ELSE Restored(h, cfg, f, e, h[f.original])

\* fault variant: no try/finally, the restore follows the yield
ExitScopeNoFinally(h, cfg, f, e) ==
  IF e # NoError
  THEN NotRestored(h, cfg, f, e)
  ELSE Restored(h, cfg, f, e, h[f.original])

\* fault variant: the body's error is caught and dropped
ExitScopeSwallow(h, cfg, f, e) == Restored(h, cfg, f, NoError, h[f.original])

\* fault variant: only the overridden keys are restored
ExitScopeOverriddenOnly(h, cfg, f, e) ==
  Restored(h, cfg, f, e,
           Restrict(h[f.original], f.keys \cap DOMAIN h[f.original]))

\* fault variant: restore to the digested defaults
ExitScopeToDefaults(h, cfg, f, e) == Restored(h, cfg, f, e, Digested)

\* fault variant: config = original (rebinding the global)
ExitScopeRebind(h, cfg, f, e) ==
  {[heap |-> h, config |-> f.original, exc |-> e]}

\* try: yield / finally: config.update(original)
\* The finally clause runs however the body ended (e is the body's error, or
\* NoError); the body's error goes on to the caller unless the clause raises.
ExitScope(h, cfg, f, e) == Restored(h, cfg, f, e, h[f.original])

\* history record of a step; a step fills in what it is about
NoEvent ==
  [op |-> "init", t |-> "main", input |-> EmptyDict, pre |-> EmptyDict,
   snap |-> EmptyDict, err |-> NoError, raised |-> FALSE, depth |-> 0,
   changed |-> FALSE, dirty |-> FALSE]

\* ---------------------------------------------------------------- state

Init ==
  /\ config = ConfigObj
  /\ heap = [r \in {ConfigObj} |-> Digested]
  /\ strict \in BOOLEAN
  /\ threads = {"main"}
  /\ stack = [t \in Contexts |-> <<>>]
  /\ exc = [t \in Contexts |-> NoError]
  /\ conc = [ran |-> {}, exited |-> {}, overlap |-> FALSE]
  /\ ev = NoEvent

InitConc ==
  /\ config = ConfigObj
  /\ heap = [r \in {ConfigObj} |-> Digested]
  /\ strict \in BOOLEAN
  /\ threads = Contexts
  /\ stack = [t \in Contexts |-> <<>>]
  /\ exc = [t \in Contexts |-> NoError]
  /\ conc = [ran |-> {}, exited |-> {}, overlap |-> FALSE]
  /\ ev = NoEvent

\* with tempconfig(M): the generator runs up to config.update(temp).
\* input (the caller's mapping) and pre, live, keys are history.
Enter(t, M) ==
  /\ Idle(t)
  /\ Len(stack[t]) < MaxDepth
  /\ LET o == TakeOriginal(heap, config)
         f == [pc |-> "apply", original |-> o.ref, input |-> M,
               temp |-> FilterTemp(M, o.heap[o.ref]),
               pre |-> heap[config], live |-> LiveOf(heap[config]),
               keys |-> {}]
     IN /\ heap' = o.heap
        /\ stack' = [stack EXCEPT ![t] = Append(@, f)]
  /\ ev' = [NoEvent EXCEPT !.op = "enter", !.t = t]
  /\ conc' = IF Cardinality(threads) = 1
             THEN conc
             ELSE [conc EXCEPT
                     !.ran = @ \cup {t},
                     !.overlap = @ \/ \E u \in threads \ {t} :
                                        stack[u] # <<>>]
  /\ UNCHANGED <<config, strict, threads, exc>>

\* config.update(temp), then the yield; an error here is outside the try.
\* temp is not read again once the update is done.
Apply(t) ==
  /\ stack[t] # <<>>
  /\ Top(t).pc = "apply"
  /\ \E o \in ApplyTemp(heap, config, Top(t).temp) :
       /\ config' = o.config
       /\ IF o.raised
          THEN /\ heap' = Discard(o.heap, Top(t).original, o.config)
               /\ stack' = [stack EXCEPT
                              ![t] = SetLive(Pop(@), o.heap[o.config])]
               /\ exc' = [exc EXCEPT ![t] = UpdateError]
          ELSE /\ heap' = o.heap
               /\ stack' = [stack EXCEPT
                              ![t][Len(stack[t])] =
                                [@ EXCEPT !.pc = "body",
                                          !.input = EmptyDict,
                                          !.temp = EmptyDict,
                                          !.keys = DOMAIN Top(t).temp,
                                          !.live = LiveOf(o.heap[o.config])]]
               /\ exc' = exc
       /\ ev' = [NoEvent EXCEPT !.op = "apply", !.t = t,
                                !.input = Top(t).input, !.pre = Top(t).pre,
                                !.raised = o.raised,
                                !.depth = Len(stack[t])]
  /\ UNCHANGED <<strict, threads, conc>>

\* caller code: config[k] = v
SetItem(t, k, v) ==
  /\ Idle(t)
  /\ k \in DOMAIN heap[config]
  /\ heap' = [heap EXCEPT ![config][k] = v]
  /\ stack' = [stack EXCEPT ![t] = SetLive(@, heap'[config])]
  /\ ev' = [NoEvent EXCEPT !.op = "set", !.t = t]
  /\ UNCHANGED <<config, strict, threads, exc, conc>>

\* caller code: config.update(M)
BulkUpdate(t, M) ==
  /\ Idle(t)
  /\ \E o \in UpdateOutcomes(heap[config], M) :
       /\ heap' = [heap EXCEPT ![config] = o.d]
       /\ stack' = [stack EXCEPT ![t] = SetLive(@, o.d)]
       /\ exc' = [exc EXCEPT ![t] = IF o.raised THEN UpdateError ELSE NoError]
  /\ ev' = [NoEvent EXCEPT !.op = "update", !.t = t]
  /\ UNCHANGED <<config, strict, threads, conc>>

\* the with block is left with error e (NoError: normally)
Leave(t, e) ==
  /\ stack[t] # <<>>
  /\ Top(t).pc = "body"
  /\ \E o \in ExitScope(heap, config, Top(t), e) :
       /\ heap' = o.heap
       /\ config' = o.config
       /\ exc' = [exc EXCEPT ![t] = o.exc]
  /\ stack' = [stack EXCEPT ![t] = Pop(@)]
  /\ ev' = [NoEvent EXCEPT
              !.op = "exit", !.t = t, !.pre = Top(t).pre,
              !.snap = heap[Top(t).original], !.err = e,
              !.depth = Len(stack[t]),
              !.changed = heap[config] # Top(t).pre,
              !.dirty = \E k \in DOMAIN Top(t).pre \ Top(t).keys :
                           /\ k \in DOMAIN heap[config]
                           /\ heap[config][k] # Top(t).pre[k]]
  /\ conc' = IF Cardinality(threads) = 1
             THEN conc
             ELSE [conc EXCEPT !.exited = @ \cup {t}]
  /\ UNCHANGED <<strict, threads>>

\* the body completes
ExitNormal(t) == exc[t] = NoError /\ Leave(t, NoError)

\* the body raises e
Raise(t, e) == exc[t] = NoError /\ Leave(t, e)

\* an error that reached the body from a call it made leaves the body
Propagate(t) == exc[t] # NoError /\ Leave(t, exc[t])

\* the caller handles the error it observes
Catch(t) ==
  /\ exc[t] # NoError
  /\ InCaller(t)
  /\ exc' = [exc EXCEPT ![t] = NoError]
  /\ ev' = [NoEvent EXCEPT !.op = "catch", !.t = t]
  /\ UNCHANGED <<config, heap, strict, threads, stack, conc>>

Next ==
  \/ \E t \in threads, M \in Mappings : Enter(t, M)
  \/ \E t \in threads : Apply(t)
  \/ \E t \in threads, k \in KnownKeys, v \in Values : SetItem(t, k, v)
  \/ \E t \in threads, M \in BodyMappings : BulkUpdate(t, M)
  \/ \E t \in threads : ExitNormal(t)
  \/ \E t \in threads, e \in Errors : Raise(t, e)
  \/ \E t \in threads : Propagate(t)
  \/ \E t \in threads : Catch(t)

\* one context running arbitrary caller code, scopes nested up to MaxDepth
Spec == Init /\ [][Next]_vars

\* each context runs one `with tempconfig(M): body` and stops
NextConc ==
  \/ \E t \in threads, M \in Mappings : t \notin conc.ran /\ Enter(t, M)
  \/ \E t \in threads : Apply(t)
  \/ \E t \in threads, k \in KnownKeys, v \in Values :
       stack[t] # <<>> /\ SetItem(t, k, v)
  \/ \E t \in threads, M \in BodyMappings :
       stack[t] # <<>> /\ BulkUpdate(t, M)
  \/ \E t \in threads : ExitNormal(t)
  \/ \E t \in threads, e \in Errors : Raise(t, e)
  \/ \E t \in threads : Propagate(t)
  \/ \E t \in threads : Catch(t)

SpecConc == InitConc /\ [][NextConc]_vars

\* ---------------------------------------------------------------- claims

\* the step just taken ended a scope / completed or failed an entry
Exited == ev.op = "exit"

Entered == ev.op = "apply" /\ ~ev.raised

EntryFailed == ev.op = "apply" /\ ev.raised

Live == heap[config]

\* C1: after a with tempconfig(M) block whose body completed normally, every
\* key of the configuration has the value it had just before the scope was
\* entered.
C1_RestoreAfterNormalExit ==
  (Exited /\ ev.err = NoError) =>
    \A k \in DOMAIN ev.pre : k \in DOMAIN Live /\ Live[k] = ev.pre[k]

C1_Witness ==
  /\ Exited /\ ev.err = NoError /\ ev.changed
  /\ \A k \in DOMAIN ev.pre : Live[k] = ev.pre[k]

\* C2: when the body raises, the caller observes the same error, and in that
\* state every key already has its pre-entry value.
C2_RestoreThenPropagate ==
  (Exited /\ ev.err # NoError) =>
    /\ exc[ev.t] = ev.err
    /\ \A k \in DOMAIN ev.pre : k \in DOMAIN Live /\ Live[k] = ev.pre[k]

C2_Witness ==
  /\ Exited /\ ev.err = "BodyError" /\ ev.changed
  /\ exc[ev.t] = "BodyError"
  /\ Live = ev.pre

\* C3: after a scope exits, the configuration is value-equal to its state
\* just before entry, whatever item assignments and bulk updates the body
\* made on the live object.
C3_RestoreWhateverBodyDid == Exited => Live = ev.pre

C3_Witness == Exited /\ ev.dirty /\ Live = ev.pre

\* C4: on entry, every key of M the configuration holds takes M's value, and
\* every key of M it does not hold is dropped: it raises no error and is no
\* member of the live configuration inside the scope or after it.
C4_KnownApplied_UnknownDropped ==
  /\ Entered =>
       \A k \in DOMAIN ev.input :
         IF k \in DOMAIN ev.pre
         THEN k \in DOMAIN Live /\ Live[k] = ev.input[k]
         ELSE k \notin DOMAIN Live
  /\ EntryFailed =>
       \E k \in DOMAIN ev.input \cap DOMAIN ev.pre : ev.input[k] = Invalid
  /\ Exited => DOMAIN Live \cap UnknownKeys = {}

C4_Witness ==
  /\ Entered
  /\ "bogus_key" \in DOMAIN ev.input
  /\ "frame_height" \in DOMAIN ev.input
  /\ Live["frame_height"] = "100.0"
  /\ ev.pre["frame_height"] = "8.0"
  /\ "bogus_key" \notin DOMAIN Live

\* C5: the global name refers to the same object before, during and after a
\* scope; a reader holding the reference taken at import sees the overrides
\* inside the scope and the restored values after it.
C5_SingletonIdentity ==
  /\ config = ConfigObj
  /\ Entered =>
       \A k \in DOMAIN ev.input \cap DOMAIN ev.pre :
         heap[ConfigObj][k] = ev.input[k]
  /\ Exited => heap[ConfigObj] = ev.pre

C5_Witness ==
  /\ Exited /\ ev.changed
  /\ config = ConfigObj
  /\ heap[ConfigObj] = ev.pre

\* C6: the key set of the live configuration is the one it had after
\* digestion, after any entries, exits and bulk updates.
C6_KeySetFixed == DOMAIN Live = DOMAIN Digested

C6_Witness ==
  /\ Entered /\ ev.depth = 2
  /\ "bogus_key" \in DOMAIN ev.input
  /\ Live # ev.pre
  /\ DOMAIN Live = DOMAIN Digested

\* C7: the snapshot is an object of its own: while the scope is active it
\* keeps the pre-entry value of every key whatever happens to the live
\* configuration, and it still holds them at exit.
C7_SnapshotIndependent ==
  /\ \A t \in threads : \A i \in 1..Len(stack[t]) :
       /\ stack[t][i].original # config
       /\ heap[stack[t][i].original] = stack[t][i].pre
  /\ Exited => ev.snap = ev.pre

C7_Witness ==
  \E t \in threads :
    /\ stack[t] # <<>>
    /\ Top(t).pc = "body"
    /\ Live # Top(t).pre
    /\ heap[Top(t).original] = Top(t).pre

\* C8: when the scopes of two contexts overlap, once both have exited every
\* key has the value recorded in the snapshot of the scope that exited last,
\* which need not be the value held before the first scope was entered.
BothExited == Exited /\ conc.exited = threads /\ conc.overlap

C8_LastExitWins == BothExited => Live = ev.snap

C8_Witness == BothExited /\ Live = ev.snap /\ Live # Digested

\* C9: if the update of the entry raises after some overrides were assigned,
\* the live configuration has the values it had before the call.
C9_FailedEntryRestores == EntryFailed => Live = ev.pre

\* C10: for nested scopes of one context, leaving the inner scope gives the
\* configuration the values the outer body last left in it, and leaving the
\* outermost scope gives the values held before it was entered.
C10_NestedRestore ==
  Exited =>
    IF stack[ev.t] # <<>>
    THEN Top(ev.t).pc = "body" /\ Live = Top(ev.t).live
    ELSE Live = ev.pre

C10_Witness ==
  /\ Exited /\ ev.depth = 2 /\ ev.changed
  /\ Live = Top(ev.t).live
  /\ Top(ev.t).live # Top(ev.t).pre

====
